---- MODULE Spec2Model ----
(***************************************************************************)
(* AgriBot chat core of the Vriddhi backend (routes/chat):                 *)
(*   getBotResponse  - keyword rules -> templated reply                    *)
(*   detectIntent    - keyword rules -> intent tag stored as metadata      *)
(* and the routes around it that write what the core reads:                *)
(*   POST /api/chat/message, /feedback, GET /history, /analytics           *)
(*   POST /api/diseases/predict, PUT /api/diseases/:id/status              *)
(*                                                                         *)
(* A text is a sequence of one-character strings, so that toLowerCase and  *)
(* String.prototype.includes are computed character by character.  A reply *)
(* is the sequence of the pieces its template literal concatenates: the    *)
(* literal chunks and the interpolated values, in order.                   *)
(***************************************************************************)
EXTENDS Integers, Sequences, FiniteSets, TLC

VARIABLES
    message,      \* the text handed to the classifier and the composer
    user,         \* the userContext (the stored User document)
    intent,       \* result of the last detectIntent(message), or NoIntent
    botResponse,  \* result of the last getBotResponse(message, user), or NoValue
    prevResponse, \* result of the getBotResponse call before the last, or NoValue
    random,       \* the value Math.random() yielded last (its numerator), or NoRandom
    users,        \* the User collection: user id -> document
    chatLogs,     \* the ChatLog collection: the stored documents, in insertion order
    requests,     \* the POST /api/chat/message requests: id -> handler state
    apiResponse,  \* the response of the last feedback, history or analytics call
    detections    \* the DiseaseDetection collection, in insertion order

coreVars == <<message, user, intent, botResponse, prevResponse>>
storeVars == <<users, chatLogs, requests>>
apiVars == <<apiResponse, detections>>
vars == <<message, user, intent, botResponse, prevResponse, random, users, chatLogs,
          requests, apiResponse, detections>>

-----------------------------------------------------------------------------
(* Bounds of the model *)

\* a text is at most MaxWords vocabulary fragments joined by single spaces
MaxWords == 2
\* Math.random() yields k / RandomSteps for k in 0 .. RandomSteps-1
RandomSteps == 5
\* stats counters range over 0 .. MaxCount
MaxCount == 4
\* the number of POST /api/chat/message requests of a behaviour
MaxRequests == 2

\* "not yet computed" markers: of botResponse and prevResponse, of intent,
\* and of random
NoValue == <<"NoValue">>
NoIntent == ""
NoRandom == 0 - 1
\* the JavaScript value undefined where a reply is expected
Undefined == <<"undefined">>

-----------------------------------------------------------------------------
(* Strings as character sequences *)

LowerMap ==
    ("A" :> "a") @@ ("B" :> "b") @@ ("C" :> "c") @@ ("D" :> "d") @@
    ("E" :> "e") @@ ("F" :> "f") @@ ("G" :> "g") @@ ("H" :> "h") @@
    ("I" :> "i") @@ ("J" :> "j") @@ ("K" :> "k") @@ ("L" :> "l") @@
    ("M" :> "m") @@ ("N" :> "n") @@ ("O" :> "o") @@ ("P" :> "p") @@
    ("Q" :> "q") @@ ("R" :> "r") @@ ("S" :> "s") @@ ("T" :> "t") @@
    ("U" :> "u") @@ ("V" :> "v") @@ ("W" :> "w") @@ ("X" :> "x") @@
    ("Y" :> "y") @@ ("Z" :> "z")

\* String.prototype.toLowerCase
toLowerCase(s) ==
    [i \in 1..Len(s) |-> IF s[i] \in DOMAIN LowerMap THEN LowerMap[s[i]] ELSE s[i]]

\* String.prototype.includes: kw occurs in s as a contiguous substring
includes(s, kw) ==
    \E i \in 0..(Len(s) - Len(kw)) : SubSeq(s, i + 1, i + Len(kw)) = kw

\* the keywords tested by the two rule chains
kw_disease == <<"d","i","s","e","a","s","e">>
kw_sick == <<"s","i","c","k">>
kw_problem == <<"p","r","o","b","l","e","m">>
kw_water == <<"w","a","t","e","r">>
kw_irrigation == <<"i","r","r","i","g","a","t","i","o","n">>
kw_fertilizer == <<"f","e","r","t","i","l","i","z","e","r">>
kw_nutrients == <<"n","u","t","r","i","e","n","t","s">>
kw_weather == <<"w","e","a","t","h","e","r">>
kw_rain == <<"r","a","i","n">>
kw_harvest == <<"h","a","r","v","e","s","t">>
kw_ready == <<"r","e","a","d","y">>
kw_trend == <<"t","r","e","n","d">>
kw_statistics == <<"s","t","a","t","i","s","t","i","c","s">>
kw_treatment == <<"t","r","e","a","t","m","e","n","t">>
kw_cure == <<"c","u","r","e">>
kw_help == <<"h","e","l","p">>
kw_what_can_you_do == <<"w","h","a","t"," ","c","a","n"," ","y","o","u"," ","d","o">>

-----------------------------------------------------------------------------
(* detectIntent: the intent tag stored with the bot reply *)

\* detectIntent comparing the raw text: the toLowerCase call left out
detectIntent_CaseSensitive(msgText) ==
    LET msg == msgText IN
    IF includes(msg, kw_disease) \/ includes(msg, kw_sick) \/ includes(msg, kw_problem)
      THEN "disease_detection"
    ELSE IF includes(msg, kw_water) \/ includes(msg, kw_irrigation)
      THEN "irrigation_advice"
    ELSE IF includes(msg, kw_fertilizer) \/ includes(msg, kw_nutrients)
      THEN "fertilizer_recommendation"
    ELSE IF includes(msg, kw_weather) \/ includes(msg, kw_rain)
      THEN "weather_query"
    ELSE IF includes(msg, kw_harvest) \/ includes(msg, kw_ready)
      THEN "harvest_timing"
    ELSE IF includes(msg, kw_treatment) \/ includes(msg, kw_cure)
      THEN "treatment_advice"
    ELSE IF includes(msg, kw_help)
      THEN "help_request"
    ELSE "general_query"

\* detectIntent without its final return: falling off the end yields undefined
detectIntent_NoDefault(msgText) ==
    LET msg == toLowerCase(msgText) IN
    IF includes(msg, kw_disease) \/ includes(msg, kw_sick) \/ includes(msg, kw_problem)
      THEN "disease_detection"
    ELSE IF includes(msg, kw_water) \/ includes(msg, kw_irrigation)
      THEN "irrigation_advice"
    ELSE IF includes(msg, kw_fertilizer) \/ includes(msg, kw_nutrients)
      THEN "fertilizer_recommendation"
    ELSE IF includes(msg, kw_weather) \/ includes(msg, kw_rain)
      THEN "weather_query"
    ELSE IF includes(msg, kw_harvest) \/ includes(msg, kw_ready)
      THEN "harvest_timing"
    ELSE IF includes(msg, kw_treatment) \/ includes(msg, kw_cure)
      THEN "treatment_advice"
    ELSE IF includes(msg, kw_help)
      THEN "help_request"
    ELSE "undefined"

detectIntent(msgText) ==
    LET msg == toLowerCase(msgText) IN
    IF includes(msg, kw_disease) \/ includes(msg, kw_sick) \/ includes(msg, kw_problem)
      THEN "disease_detection"
    ELSE IF includes(msg, kw_water) \/ includes(msg, kw_irrigation)
      THEN "irrigation_advice"
    ELSE IF includes(msg, kw_fertilizer) \/ includes(msg, kw_nutrients)
      THEN "fertilizer_recommendation"
    ELSE IF includes(msg, kw_weather) \/ includes(msg, kw_rain)
      THEN "weather_query"
    ELSE IF includes(msg, kw_harvest) \/ includes(msg, kw_ready)
      THEN "harvest_timing"
    ELSE IF includes(msg, kw_treatment) \/ includes(msg, kw_cure)
      THEN "treatment_advice"
    ELSE IF includes(msg, kw_help)
      THEN "help_request"
    ELSE "general_query"

-----------------------------------------------------------------------------
(* getBotResponse: the reply composer *)

\* cropType with ?? in place of ||: an empty name is kept
cropType_NullishOnly(userContext) ==
    IF /\ "farmDetails" \in DOMAIN userContext
       /\ "cropTypes" \in DOMAIN userContext.farmDetails
       /\ Len(userContext.farmDetails.cropTypes) >= 1
       /\ "name" \in DOMAIN userContext.farmDetails.cropTypes[1]
      THEN userContext.farmDetails.cropTypes[1].name
      ELSE "crops"

\* farmDetails?.cropTypes?.[0]?.name || "crops"
cropType(userContext) ==
    IF /\ "farmDetails" \in DOMAIN userContext
       /\ "cropTypes" \in DOMAIN userContext.farmDetails
       /\ Len(userContext.farmDetails.cropTypes) >= 1
       /\ "name" \in DOMAIN userContext.farmDetails.cropTypes[1]
       /\ userContext.farmDetails.cropTypes[1].name # ""
      THEN userContext.farmDetails.cropTypes[1].name
      ELSE "crops"

\* farmDetails?.location?.city with no default: an absent city is printed as
\* "undefined"
location_NoDefault(userContext) ==
    IF /\ "farmDetails" \in DOMAIN userContext
       /\ "location" \in DOMAIN userContext.farmDetails
       /\ "city" \in DOMAIN userContext.farmDetails.location
      THEN userContext.farmDetails.location.city
      ELSE "undefined"

\* farmDetails?.location?.city || "your area"
location(userContext) ==
    IF /\ "farmDetails" \in DOMAIN userContext
       /\ "location" \in DOMAIN userContext.farmDetails
       /\ "city" \in DOMAIN userContext.farmDetails.location
       /\ userContext.farmDetails.location.city # ""
      THEN userContext.farmDetails.location.city
      ELSE "your area"

\* farmDetails?.soilType read in place of farmDetails?.irrigationType
irrigationType_FromSoilType(userContext) ==
    IF /\ "farmDetails" \in DOMAIN userContext
       /\ "soilType" \in DOMAIN userContext.farmDetails
       /\ userContext.farmDetails.soilType # ""
      THEN userContext.farmDetails.soilType
      ELSE "your irrigation system"

\* farmDetails?.irrigationType || "your irrigation system"
irrigationType(userContext) ==
    IF /\ "farmDetails" \in DOMAIN userContext
       /\ "irrigationType" \in DOMAIN userContext.farmDetails
       /\ userContext.farmDetails.irrigationType # ""
      THEN userContext.farmDetails.irrigationType
      ELSE "your irrigation system"

\* farmDetails?.soilType with no default: an absent soil type is printed as
\* "undefined"
soilType_NoDefault(userContext) ==
    IF /\ "farmDetails" \in DOMAIN userContext
       /\ "soilType" \in DOMAIN userContext.farmDetails
      THEN userContext.farmDetails.soilType
      ELSE "undefined"

\* farmDetails?.soilType || "detected soil"
soilType(userContext) ==
    IF /\ "farmDetails" \in DOMAIN userContext
       /\ "soilType" \in DOMAIN userContext.farmDetails
       /\ userContext.farmDetails.soilType # ""
      THEN userContext.farmDetails.soilType
      ELSE "detected soil"

\* the JavaScript value of a count of stats, tagged by its typeof
number(n) == [number |-> n]
string(s) == [string |-> s]

\* the values of a count that are not numbers: strings that are no numerals
NonNumericCounts == {string("abc")}

\* Number(v) is NaN: of the values above, the strings
isNaN(v) == "string" \in DOMAIN v

\* the value is truthy: a number other than 0, a string other than ""
truthy(v) == IF "number" \in DOMAIN v THEN v.number # 0 ELSE v.string # ""

\* ${v} of a template literal: a number in decimal, a string as it is
interpolate(v) == IF "number" \in DOMAIN v THEN ToString(v.number) ELSE v.string

\* stats?.diseasesDetected > 1 in place of > 0
diseasesDetectedPositive_MoreThanOne(userContext) ==
    /\ "stats" \in DOMAIN userContext
    /\ "diseasesDetected" \in DOMAIN userContext.stats
    /\ ~isNaN(userContext.stats.diseasesDetected)
    /\ userContext.stats.diseasesDetected.number > 1

\* stats?.diseasesDetected > 0   (undefined > 0 and NaN > 0 are false)
diseasesDetectedPositive(userContext) ==
    /\ "stats" \in DOMAIN userContext
    /\ "diseasesDetected" \in DOMAIN userContext.stats
    /\ ~isNaN(userContext.stats.diseasesDetected)
    /\ userContext.stats.diseasesDetected.number > 0

\* stats?.treatmentsApplied > 0
treatmentsAppliedPositive(userContext) ==
    /\ "stats" \in DOMAIN userContext
    /\ "treatmentsApplied" \in DOMAIN userContext.stats
    /\ ~isNaN(userContext.stats.treatmentsApplied)
    /\ userContext.stats.treatmentsApplied.number > 0

\* stats?.diseasesDetected || dflt   (undefined and 0 are falsy)
diseasesDetectedOr(userContext, dflt) ==
    IF /\ "stats" \in DOMAIN userContext
       /\ "diseasesDetected" \in DOMAIN userContext.stats
       /\ truthy(userContext.stats.diseasesDetected)
      THEN userContext.stats.diseasesDetected
      ELSE number(dflt)

\* Number arithmetic on the quotients of small positive integers. A binary64
\* value is a record of its whole part, the 52 binary places after it as four
\* limbs of LimbBits bits, leading limb first, and an exponent exp: the value is
\* (whole + 0.frac) * 2^exp, and it has SignificandBits significant bits
SignificandBits == 53
LimbBits == (SignificandBits - 1) \div 4

RECURSIVE pow2(_)
pow2(n) == IF n = 0 THEN 1 ELSE 2 * pow2(n - 1)

Limb == pow2(LimbBits)

\* the number of bits of a positive integer
RECURSIVE bitLength(_)
bitLength(n) == IF n = 0 THEN 0 ELSE 1 + bitLength(n \div 2)

\* n added to the last limb: the carry out of the leading limb, then the limbs
RECURSIVE addToLimbs(_, _)
addToLimbs(limbs, n) ==
    IF limbs = <<>> THEN <<n>>
    ELSE LET v == limbs[Len(limbs)] + n
         IN  Append(addToLimbs(SubSeq(limbs, 1, Len(limbs) - 1), v \div Limb),
                    v % Limb)

\* the limbs times c plus a carry: the carry out of the leading limb, then
\* the limbs
RECURSIVE timesLimbs(_, _, _)
timesLimbs(limbs, c, carry) ==
    IF limbs = <<>> THEN <<carry>>
    ELSE LET v == limbs[Len(limbs)] * c + carry
         IN  Append(timesLimbs(SubSeq(limbs, 1, Len(limbs) - 1), c, v \div Limb),
                    v % Limb)

\* t and d scaled by powers of two until 1 <= t / d < 2, and the exponent k
\* of the unscaled quotient
RECURSIVE normalise(_, _, _)
normalise(t, d, k) ==
    IF t >= 2 * d THEN normalise(t, 2 * d, k + 1)
    ELSE IF t < d THEN normalise(2 * t, d, k - 1)
    ELSE [t |-> t, d |-> d, k |-> k]

\* long division: the next n limbs of the quotient with r the running
\* remainder, and the remainder left after them
RECURSIVE quotientLimbs(_, _, _)
quotientLimbs(r, d, n) ==
    IF n = 0 THEN [limbs |-> <<>>, rem |-> r]
    ELSE LET q == quotientLimbs((r * Limb) % d, d, n - 1)
         IN  [limbs |-> <<(r * Limb) \div d>> \o q.limbs, rem |-> q.rem]

\* t / d of two positive integers: the exact quotient rounded to the nearest
\* binary64 value, a tie to the even one
divide(t, d) ==
    LET n == normalise(t, d, 0)
        q == quotientLimbs(n.t - n.d, n.d, 4)
        up == \/ 2 * q.rem > n.d
              \/ 2 * q.rem = n.d /\ q.limbs[Len(q.limbs)] % 2 = 1
        sum == addToLimbs(q.limbs, IF up THEN 1 ELSE 0)
    IN  [whole |-> 1 + Head(sum), frac |-> Tail(sum), exp |-> n.k]

\* x * c of a binary64 value and a small positive integer: the exact product
\* rounded to the nearest binary64 value, a tie to the even one
times(x, c) ==
    LET product == timesLimbs(x.frac, c, 0)
        whole == x.whole * c + Head(product)
        frac == Tail(product)
        cut == bitLength(whole) - 1
        last == frac[Len(frac)]
        low == last % pow2(cut)
        up == /\ cut > 0
              /\ \/ 2 * low > pow2(cut)
                 \/ 2 * low = pow2(cut) /\ (last \div pow2(cut)) % 2 = 1
        sum == addToLimbs([frac EXCEPT ![Len(frac)] = last - low],
                          IF up THEN pow2(cut) ELSE 0)
    IN  [whole |-> whole + Head(sum), frac |-> Tail(sum), exp |-> x.exp]

\* x.toFixed(0) of a positive binary64 value: the integer nearest to x, the
\* larger one when two are as near, in decimal
toFixed0(x) ==
    LET whole == IF x.exp >= 0
                   THEN x.whole * pow2(x.exp) + x.frac[1] \div pow2(LimbBits - x.exp)
                   ELSE x.whole \div pow2(0 - x.exp)
        half == IF x.exp >= 0
                  THEN (x.frac[1] \div pow2(LimbBits - 1 - x.exp)) % 2
                  ELSE (x.whole \div pow2(0 - x.exp - 1)) % 2
    IN  ToString(whole + half)

\* ((stats.treatmentsApplied / (stats.diseasesDetected || 1)) * 100).toFixed(0);
\* a division by NaN gives NaN, which toFixed prints as "NaN"
treatmentRate(userContext) ==
    LET d == diseasesDetectedOr(userContext, 1)
        t == userContext.stats.treatmentsApplied.number
    IN  IF isNaN(d) THEN "NaN"
        ELSE toFixed0(times(divide(t, d.number), 100))

\* The opening literal chunk of each template
DiseaseOpening == "I can help you identify "
IrrigationOpening == "Based on weather data for "
FertilizerOpening == "For "
WeatherOpening == "Weather update for "
HarvestOpening == "Your "
TrendOpening == "Disease trends in "
TreatmentOpening == "For current disease cases, copper fungicide shows 92% effectiveness for leaf blight. Biological treatments work well for root rot. Your treatment success rate is "
\* (the bullet character of the template is written "*")
HelpOpening == "I'm your AI farming assistant! I can help with:\n* Disease identification from photos ("
Default1Opening == "Tell me more about your "
Default2Opening == "I'm here to help with your agricultural needs. Are you dealing with any plant diseases, irrigation concerns, or growth issues with your "
Default3Opening == "What specific challenge can I help you solve on your farm today? I have data on "
Default4Opening == "I'd be happy to help! Your farm in "

diseaseResponse(userContext) ==
    <<DiseaseOpening, cropType(userContext),
      " diseases! Upload a photo of the affected plant leaves, and I'll analyze it for common diseases. Based on recent data in ",
      location(userContext),
      ", leaf blight is trending. Your disease detection accuracy rate is ",
      IF diseasesDetectedPositive(userContext)
        THEN "92%"
        ELSE "new - let's start building your success rate!",
      ".">>

irrigationResponse(userContext) ==
    <<IrrigationOpening, location(userContext), " and your ",
      irrigationType(userContext),
      ", I recommend adjusting your watering schedule. With current conditions, ",
      cropType(userContext),
      " typically needs watering every 3-4 days. I'll factor in the 65% rain chance this week.">>

fertilizerResponse(userContext) ==
    <<FertilizerOpening, cropType(userContext),
      ", I suggest nitrogen-rich fertilizers during vegetative stage. Your soil type (",
      soilType(userContext),
      ") shows good phosphorus levels but could benefit from additional potassium. Want specific product recommendations?">>

weatherResponse(userContext) ==
    <<WeatherOpening, location(userContext),
      ": 65% chance of rain, low drought risk (15%). Perfect conditions for ",
      cropType(userContext),
      " with 78% optimal growing conditions! Temperature is ideal for growth.">>

harvestResponse(userContext) ==
    <<HarvestOpening, cropType(userContext),
      " will be ready for harvest in approximately 3 months based on your planting date. Growth monitoring shows 15-20% higher yield potential than average. I'll send notifications when optimal harvest time approaches.">>

trendResponse(userContext) ==
    <<TrendOpening, location(userContext),
      " show a 30% decrease this month! ", cropType(userContext),
      " leaf blight cases are down, but watch for root rot in wet areas. Check your Disease Trends dashboard for detailed analytics.">>

treatmentResponse(userContext) ==
    <<TreatmentOpening,
      IF treatmentsAppliedPositive(userContext)
        THEN treatmentRate(userContext) \o "%"
        ELSE "just getting started",
      "!">>

\* the help template with stats?.treatmentsApplied || 0 as its count
helpResponse_TreatmentsCount(userContext) ==
    <<HelpOpening,
      interpolate(IF /\ "stats" \in DOMAIN userContext
                     /\ "treatmentsApplied" \in DOMAIN userContext.stats
                     /\ truthy(userContext.stats.treatmentsApplied)
                    THEN userContext.stats.treatmentsApplied
                    ELSE number(0)),
      " analyzed so far)\n* Irrigation scheduling based on ",
      location(userContext),
      " weather\n* Fertilizer recommendations for ",
      cropType(userContext),
      "\n* Harvest timing predictions\n* Treatment effectiveness analysis\n* Disease trend monitoring in your region\n\nWhat farming challenge can I help you solve today?">>

helpResponse(userContext) ==
    <<HelpOpening,
      interpolate(diseasesDetectedOr(userContext, 0)),
      " analyzed so far)\n* Irrigation scheduling based on ",
      location(userContext),
      " weather\n* Fertilizer recommendations for ",
      cropType(userContext),
      "\n* Harvest timing predictions\n* Treatment effectiveness analysis\n* Disease trend monitoring in your region\n\nWhat farming challenge can I help you solve today?">>

\* the four default responses, each with the context interpolated
contextualResponses(userContext) ==
    << <<Default1Opening, cropType(userContext),
         " farming challenges in ", location(userContext), "!">>,
       <<Default2Opening, cropType(userContext), "?">>,
       <<Default3Opening, cropType(userContext), " best practices.">>,
       <<Default4Opening, location(userContext),
         " might be facing seasonal challenges - what's your main concern?">> >>

\* Math.ceil in place of Math.floor
floorTimes_Ceil(k, n) == (k * n + RandomSteps - 1) \div RandomSteps

\* Math.floor(r * n) for the value r = k / RandomSteps of Math.random()
floorTimes(k, n) == (k * n) \div RandomSteps

\* Math.floor(Math.random()) * contextualResponses.length: always index 0
defaultResponse_FloorFirst(userContext, k) ==
    contextualResponses(userContext)[1]

\* contextualResponses[Math.floor(Math.random() * contextualResponses.length)];
\* an index outside the array reads undefined
defaultResponse(userContext, k) ==
    LET pool == contextualResponses(userContext)
        idx == floorTimes(k, Len(pool))
    IN  IF idx + 1 \in DOMAIN pool THEN pool[idx + 1] ELSE Undefined

\* the if-chain of getBotResponse: the number of the first branch whose
\* condition holds of the lower-cased text msg, 0 when the chain falls
\* through to the default responses
responseRule(msg) ==
    IF includes(msg, kw_disease) \/ includes(msg, kw_sick) \/ includes(msg, kw_problem)
      THEN 1
    ELSE IF includes(msg, kw_water) \/ includes(msg, kw_irrigation) THEN 2
    ELSE IF includes(msg, kw_fertilizer) \/ includes(msg, kw_nutrients) THEN 3
    ELSE IF includes(msg, kw_weather) \/ includes(msg, kw_rain) THEN 4
    ELSE IF includes(msg, kw_harvest) \/ includes(msg, kw_ready) THEN 5
    ELSE IF includes(msg, kw_trend) \/ includes(msg, kw_statistics) THEN 6
    ELSE IF includes(msg, kw_treatment) \/ includes(msg, kw_cure) THEN 7
    ELSE IF includes(msg, kw_help) \/ includes(msg, kw_what_can_you_do) THEN 8
    ELSE 0

\* the default branch is the only one that calls Math.random()
drawsRandom(msgText) == responseRule(toLowerCase(msgText)) = 0

\* getBotResponse whose help branch lacks its return and falls through to the
\* default responses
getBotResponse_HelpFallsThrough(msgText, userContext, k) ==
    LET rule == responseRule(toLowerCase(msgText)) IN
    CASE rule = 1 -> diseaseResponse(userContext)
      [] rule = 2 -> irrigationResponse(userContext)
      [] rule = 3 -> fertilizerResponse(userContext)
      [] rule = 4 -> weatherResponse(userContext)
      [] rule = 5 -> harvestResponse(userContext)
      [] rule = 6 -> trendResponse(userContext)
      [] rule = 7 -> treatmentResponse(userContext)
      [] OTHER -> defaultResponse(userContext, k)

\* getBotResponse(message, userContext); k is the numerator of the value
\* k / RandomSteps that Math.random() yields if the default branch draws it
getBotResponse(msgText, userContext, k) ==
    LET rule == responseRule(toLowerCase(msgText)) IN
    CASE rule = 1 -> diseaseResponse(userContext)
      [] rule = 2 -> irrigationResponse(userContext)
      [] rule = 3 -> fertilizerResponse(userContext)
      [] rule = 4 -> weatherResponse(userContext)
      [] rule = 5 -> harvestResponse(userContext)
      [] rule = 6 -> trendResponse(userContext)
      [] rule = 7 -> treatmentResponse(userContext)
      [] rule = 8 -> helpResponse(userContext)
      [] OTHER -> defaultResponse(userContext, k)

-----------------------------------------------------------------------------
(* Inputs: message texts and user contexts *)

\* vocabulary fragments: every keyword of the rule chains, upper-case and
\* mixed-case spellings, a text without keywords, and the two halves of the
\* phrase "what can you do"
Words ==
    { kw_disease, kw_sick, kw_problem, kw_water,
      kw_irrigation, kw_fertilizer, kw_nutrients, kw_weather,
      kw_rain, kw_harvest, kw_ready, kw_trend,
      kw_statistics, kw_treatment, kw_cure, kw_help,
      kw_what_can_you_do,
      <<"I"," ","n","e","e","d"," ","H","E","L","P">>,
      <<"S","I","C","K">>,
      <<"t","e","l","l"," ","m","e"," ","a"," ","j","o","k","e">>,
      <<"w","h","a","t"," ","c","a","n">>,
      <<"y","o","u"," ","d","o">> }

\* the texts of at most n fragments, joined by single spaces
RECURSIVE TextsOf(_)
TextsOf(n) ==
    IF n = 0 THEN {<<>>}
    ELSE LET shorter == TextsOf(n - 1)
         IN  shorter \cup Words
               \cup {t \o <<" ">> \o w : t \in shorter \ {<<>>}, w \in Words}

Texts == TextsOf(MaxWords)

\* an optional field: absent, or present with one of the values
Optional(field, values) == {<<>>} \cup {field :> v : v \in values}

CropTypesValues ==
    { <<>>,
      <<[name |-> ""]>>,
      <<[variety |-> "Basmati"]>>,
      <<[name |-> "wheat"]>>,
      <<[name |-> "rice"], [name |-> "wheat"]>> }

LocationValues == { [state |-> "Maharashtra"], [city |-> ""], [city |-> "Pune"] }

FarmDetailsValues ==
    { c @@ l @@ i @@ s :
        c \in Optional("cropTypes", CropTypesValues),
        l \in Optional("location", LocationValues),
        i \in Optional("irrigationType", {"Drip"}),
        s \in Optional("soilType", {"Loamy"}) }

\* two larger counts, of a farmer who has treated 23 of 40 detected diseases
LargeCounts == {23, 40}

\* the values of a count: the numbers up to MaxCount, two larger ones and the
\* non-numbers
CountValues ==
    {number(n) : n \in (0..MaxCount) \cup LargeCounts} \cup NonNumericCounts

StatsValues ==
    { d @@ t :
        d \in Optional("diseasesDetected", CountValues),
        t \in Optional("treatmentsApplied", CountValues) }

EmptyContext == <<>>

FullFarmDetails ==
    [cropTypes |-> <<[name |-> "wheat"]>>, location |-> [city |-> "Meerut"],
     irrigationType |-> "Sprinkler", soilType |-> "Loamy"]

\* a freshly registered user: the schema defaults of stats
DefaultStats == [diseasesDetected |-> number(0), treatmentsApplied |-> number(0)]

FullContext == [farmDetails |-> FullFarmDetails, stats |-> DefaultStats]

\* every farm with the default stats, and every stats bundle with no farm
\* and with the full farm
Contexts ==
    {EmptyContext}
      \cup {("farmDetails" :> f) @@ ("stats" :> DefaultStats) : f \in FarmDetailsValues}
      \cup {("farmDetails" :> FullFarmDetails) @@ s : s \in Optional("stats", StatsValues)}
      \cup Optional("stats", StatsValues)

\* one text for each branch of the composer
ComposeTexts ==
    { kw_sick, kw_irrigation, kw_nutrients, kw_rain, kw_harvest, kw_statistics,
      kw_cure, kw_help, kw_what_can_you_do,
      <<"t","e","l","l"," ","m","e"," ","a"," ","j","o","k","e">> }

\* every text with the empty context, every one-fragment text with the full
\* context, and every context with one text for each branch of the composer
Inputs ==
    (Texts \X {EmptyContext})
      \cup (TextsOf(1) \X {FullContext})
      \cup (ComposeTexts \X Contexts)

\* the numerators k of the values k / RandomSteps of Math.random()
RandomValues == 0..(RandomSteps - 1)

-----------------------------------------------------------------------------
(* The state machine: the two functions applied to an input *)

\* the stored users: a farmer with a complete profile and one who has just
\* registered
InitialUsers ==
    [farmerA |-> [farmDetails |-> FullFarmDetails,
                  stats |-> [totalQueries |-> 0, diseasesDetected |-> number(2),
                             treatmentsApplied |-> number(1)]],
     farmerB |-> [farmDetails |-> [cropTypes |-> <<>>],
                  stats |-> [totalQueries |-> 0, diseasesDetected |-> number(0),
                             treatmentsApplied |-> number(0)]]]

RequestIds == 1..MaxRequests

\* the handler's user and chatSession before their documents are loaded,
\* and the response of a call not made yet
NotLoaded == [loaded |-> FALSE]
NoResponse == [route |-> ""]

\* the satisfaction of a ChatLog that no feedback was given on
Unrated == [rated |-> FALSE]

\* a request that has not arrived yet
IdleRequest ==
    [pc |-> "idle", userId |-> "", body |-> <<>>, message |-> <<>>,
     sessionId |-> "", messageType |-> "",
     user |-> NotLoaded, chatSession |-> NotLoaded, botResponse |-> NoValue,
     status |-> 0]

Init ==
    /\ \E input \in Inputs : message = input[1] /\ user = input[2]
    /\ intent = NoIntent
    /\ botResponse = NoValue
    /\ prevResponse = NoValue
    /\ random = NoRandom
    /\ users = InitialUsers
    /\ chatLogs = <<>>
    /\ requests = [r \in RequestIds |-> IdleRequest]
    /\ apiResponse = NoResponse
    /\ detections = <<>>

\* a call detectIntent(message)
Classify ==
    /\ intent' = detectIntent(message)
    /\ UNCHANGED <<message, user, botResponse, prevResponse, random>>
    /\ UNCHANGED storeVars
    /\ UNCHANGED apiVars

\* a call getBotResponse(message, user); Math.random() yields k / RandomSteps
\* when the default branch is reached
Compose ==
    /\ \E k \in RandomValues :
          /\ botResponse' = getBotResponse(message, user, k)
          /\ random' = IF drawsRandom(message) THEN k ELSE random
    /\ prevResponse' = botResponse
    /\ UNCHANGED <<message, user, intent>>
    /\ UNCHANGED storeVars
    /\ UNCHANGED apiVars

Next == Classify \/ Compose

Spec == Init /\ [][Next]_vars

-----------------------------------------------------------------------------
(* POST /api/chat/message: the handler, one action per stretch of code      *)
(* between two awaits                                                       *)

\* body("message").isLength({ min: 1, max: 1000 })
MinMessageLength == 1
MaxMessageLength == 1000
\* metadata.confidence of a bot entry, 0.85, in hundredths
ConfidenceHundredths == 85

Whitespace == {" ", "\t", "\n"}

\* the trim() sanitiser of the validation chain
RECURSIVE trim(_)
trim(s) ==
    IF s = <<>> THEN s
    ELSE IF Head(s) \in Whitespace THEN trim(Tail(s))
    ELSE IF s[Len(s)] \in Whitespace THEN trim(SubSeq(s, 1, Len(s) - 1))
    ELSE s

\* isLength({ min: 0, max: 1000 }): the lower limit lost
validMessage_MinZero(text) == Len(text) <= MaxMessageLength

\* isLength({ min: 1, max: 1000 }) on the trimmed text
validMessage(text) ==
    /\ Len(text) >= MinMessageLength
    /\ Len(text) <= MaxMessageLength

\* a text one character over the limit
LongText == [i \in 1..(MaxMessageLength + 1) |-> "a"]

\* the message bodies clients send: a blank one, one over the limit, and one
\* with surrounding blanks and capitals that the trend rule matches
ChatTexts ==
    { <<" ">>, LongText,
      <<" ","S","h","o","w"," ","m","e"," ","t","h","e"," ","T","R","E","N","D"," ">> }

\* the session ids clients send: none (""), or a version-4 UUID
ClientSessionIds == {"", "uuid-client-1"}

\* the enum of messages.messageType in ChatLogSchema
MessageTypes == {"text", "image", "location", "file"}

\* uuidv4() of request r: an id no client and no other request holds
uuidv4(r) == "uuid-generated-" \o ToString(r)

\* addMessage with unshift in place of push: the entry goes to the front
addMessageStored_Unshift(logs, doc, entry) ==
    [logs EXCEPT ![doc.id].messages = <<entry>> \o @,
                 ![doc.id].totalMessages = Len(doc.messages) + 1]

\* addMessage whose save() writes the handler's whole messages array
addMessageStored_WholeArray(logs, doc, entry) ==
    [logs EXCEPT ![doc.id].messages = Append(doc.messages, entry),
                 ![doc.id].totalMessages = Len(doc.messages) + 1]

\* ChatLogSchema.methods.addMessage on the loaded document doc: push onto the
\* local array, set totalMessages to its length, and save(), which sends the
\* pushed entry as $push of messages and totalMessages as $set
messageEntry(sender, text, messageType, metadata) ==
    [sender |-> sender, message |-> text, messageType |-> messageType,
     metadata |-> metadata]

addMessageLocal(doc, entry) ==
    [doc EXCEPT !.messages = Append(@, entry),
                !.totalMessages = Len(doc.messages) + 1]

addMessageStored(logs, doc, entry) ==
    [logs EXCEPT ![doc.id].messages = Append(@, entry),
                 ![doc.id].totalMessages = Len(doc.messages) + 1]

InitChat ==
    /\ message = <<>>
    /\ user = EmptyContext
    /\ intent = NoIntent
    /\ botResponse = NoValue
    /\ prevResponse = NoValue
    /\ random = NoRandom
    /\ users = InitialUsers
    /\ chatLogs = <<>>
    /\ requests = [r \in RequestIds |-> IdleRequest]
    /\ apiResponse = NoResponse
    /\ detections = <<>>

\* auth, the validation chain, and the handler up to User.findById, for a
\* request whose token names one of userIds and whose body carries one of
\* messageTypes; body is the message as the client sent it, message the one
\* the chain leaves in req.body; the requests are numbered in the order of
\* their arrival
ReceiveFrom(r, userIds, messageTypes) ==
    /\ requests[r].pc = "idle"
    /\ \A q \in 1..(r - 1) : requests[q].pc # "idle"
    /\ \E uid \in userIds, text \in ChatTexts, sid \in ClientSessionIds,
          type \in messageTypes :
          LET trimmed == trim(text)
          IN  requests' = [requests EXCEPT ![r] =
                  IF validMessage(trimmed)
                    THEN [@ EXCEPT !.pc = "findUser", !.userId = uid,
                                   !.body = text, !.message = trimmed,
                                   !.sessionId = sid, !.messageType = type]
                    ELSE [@ EXCEPT !.pc = "done", !.userId = uid,
                                   !.body = text, !.status = 400]]
    /\ UNCHANGED <<coreVars, apiVars, random, users, chatLogs>>

\* a request of a stored user, messageType left to its default "text"
Receive(r) == ReceiveFrom(r, DOMAIN users, {"text"})

\* User.findById resolved; with a session id, ChatLog.findOne is issued
FindUser(r) ==
    /\ requests[r].pc = "findUser"
    /\ requests' = [requests EXCEPT ![r] =
          IF requests[r].userId \notin DOMAIN users
            THEN [@ EXCEPT !.pc = "done", !.status = 404]
            ELSE [@ EXCEPT !.user = users[requests[r].userId],
                           !.pc = IF requests[r].sessionId # ""
                                    THEN "findSession" ELSE "createSession"]]
    /\ UNCHANGED <<coreVars, apiVars, random, users, chatLogs>>

\* ChatLog.findOne({ sessionId, farmer }) resolved
FindSession(r) ==
    /\ requests[r].pc = "findSession"
    /\ LET found == {i \in DOMAIN chatLogs :
                        /\ chatLogs[i].sessionId = requests[r].sessionId
                        /\ chatLogs[i].farmer = requests[r].userId}
       IN  requests' = [requests EXCEPT ![r] =
              IF found = {}
                THEN [@ EXCEPT !.pc = "createSession"]
                ELSE LET i == CHOOSE i \in found : \A j \in found : i <= j
                     IN  [@ EXCEPT !.pc = "addUserMessage",
                                   !.chatSession =
                                       [id |-> i,
                                        sessionId |-> chatLogs[i].sessionId,
                                        messages |-> chatLogs[i].messages,
                                        totalMessages |-> chatLogs[i].totalMessages]]]
    /\ UNCHANGED <<coreVars, apiVars, random, users, chatLogs>>

\* new ChatLog({ farmer, sessionId: sessionId || uuidv4() }) and its save()
CreateSession(r) ==
    /\ requests[r].pc = "createSession"
    /\ LET sid == IF requests[r].sessionId # ""
                    THEN requests[r].sessionId ELSE uuidv4(r)
       IN  /\ chatLogs' = Append(chatLogs,
                  [farmer |-> requests[r].userId, sessionId |-> sid,
                   messages |-> <<>>, totalMessages |-> 0,
                   satisfaction |-> Unrated, resolved |-> FALSE])
           /\ requests' = [requests EXCEPT ![r] =
                  [@ EXCEPT !.pc = "addUserMessage",
                            !.chatSession =
                                [id |-> Len(chatLogs) + 1, sessionId |-> sid,
                                 messages |-> <<>>, totalMessages |-> 0]]]
    /\ UNCHANGED <<coreVars, apiVars, random, users>>

\* chatSession.addMessage("user", message, messageType); save() validates
\* the pushed entry against the schema and rejects before it writes, which
\* the handler's catch answers with 500
AddUserMessage(r) ==
    /\ requests[r].pc = "addUserMessage"
    /\ LET entry == messageEntry("user", requests[r].message,
                                 requests[r].messageType, <<>>)
       IN  IF requests[r].messageType \in MessageTypes
             THEN /\ chatLogs' = addMessageStored(chatLogs, requests[r].chatSession, entry)
                  /\ requests' = [requests EXCEPT ![r] =
                         [@ EXCEPT !.pc = "compose",
                                   !.chatSession = addMessageLocal(@, entry)]]
             ELSE /\ chatLogs' = chatLogs
                  /\ requests' = [requests EXCEPT ![r] =
                         [@ EXCEPT !.pc = "done", !.status = 500]]
    /\ UNCHANGED <<coreVars, apiVars, random, users>>

\* the reply composed ahead of the user message's append, which is lost
Respond_BeforeUserMessage(r) ==
    /\ requests[r].pc = "addUserMessage"
    /\ \E k \in RandomValues :
          /\ requests' = [requests EXCEPT ![r] =
                [@ EXCEPT !.pc = "timer", !.status = 200,
                          !.botResponse =
                              getBotResponse(requests[r].message, requests[r].user, k)]]
          /\ random' = IF drawsRandom(requests[r].message) THEN k ELSE random
    /\ UNCHANGED <<coreVars, apiVars, users, chatLogs>>

\* getBotResponse(message, user), setTimeout of the bot append, res.json
Respond(r) ==
    /\ requests[r].pc = "compose"
    /\ \E k \in RandomValues :
          /\ requests' = [requests EXCEPT ![r] =
                [@ EXCEPT !.pc = "timer", !.status = 200,
                          !.botResponse =
                              getBotResponse(requests[r].message, requests[r].user, k)]]
          /\ random' = IF drawsRandom(requests[r].message) THEN k ELSE random
    /\ UNCHANGED <<coreVars, apiVars, users, chatLogs>>

\* the timer callback: chatSession.addMessage("bot", botResponse, "text",
\* { intent: detectIntent(message), confidence: 0.85 })
TimerFire(r) ==
    /\ requests[r].pc = "timer"
    /\ LET entry == messageEntry("bot", requests[r].botResponse, "text",
                        [intent |-> detectIntent(requests[r].message),
                         confidence |-> ConfidenceHundredths])
       IN  /\ chatLogs' = addMessageStored(chatLogs, requests[r].chatSession, entry)
           /\ requests' = [requests EXCEPT ![r] =
                  [@ EXCEPT !.pc = "updateStats",
                            !.chatSession = addMessageLocal(@, entry)]]
    /\ UNCHANGED <<coreVars, apiVars, random, users>>

\* the timer callback after its await:
\* User.findByIdAndUpdate(userId, { $inc: { "stats.totalQueries": 1 } })
UpdateStats(r) ==
    /\ requests[r].pc = "updateStats"
    /\ users' = [users EXCEPT ![requests[r].userId].stats.totalQueries = @ + 1]
    /\ requests' = [requests EXCEPT ![r] = [@ EXCEPT !.pc = "done"]]
    /\ UNCHANGED <<coreVars, apiVars, random, chatLogs>>

NextChat ==
    \E r \in RequestIds :
        \/ Receive(r)
        \/ FindUser(r)
        \/ FindSession(r)
        \/ CreateSession(r)
        \/ AddUserMessage(r)
        \/ Respond(r)
        \/ TimerFire(r)
        \/ UpdateStats(r)

SpecChat == InitChat /\ [][NextChat]_vars

-----------------------------------------------------------------------------
(* The handler when a store operation rejects, the token's user is gone, or *)
(* the body carries a messageType                                           *)

\* the user ids of valid tokens: the stored users, and one deleted since
TokenUserIds == DOMAIN InitialUsers \cup {"farmerGone"}

\* the messageType values clients send: none is checked by the validation
\* chain, and "video" is not in the schema's enum
ClientMessageTypes == {"text", "video"}

ReceiveAny(r) == ReceiveFrom(r, TokenUserIds, ClientMessageTypes)

\* an awaited store operation of the handler rejects (User.findById,
\* ChatLog.findOne, chatSession.save(), addMessage): the catch answers 500
HandlerStoreFails(r) ==
    /\ requests[r].pc \in {"findUser", "findSession", "createSession", "addUserMessage"}
    /\ requests' = [requests EXCEPT ![r] = [@ EXCEPT !.pc = "done", !.status = 500]]
    /\ UNCHANGED <<coreVars, apiVars, random, users, chatLogs>>

\* an awaited store operation of the timer callback rejects (addMessage or
\* User.findByIdAndUpdate): the callback's catch logs the error, no more
TimerStoreFails(r) ==
    /\ requests[r].pc \in {"timer", "updateStats"}
    /\ requests' = [requests EXCEPT ![r] = [@ EXCEPT !.pc = "done"]]
    /\ UNCHANGED <<coreVars, apiVars, random, users, chatLogs>>

\* the steps of an arrived request r: promises settle and timers fire
Proceeds(r) ==
    \/ FindUser(r) \/ FindSession(r) \/ CreateSession(r) \/ AddUserMessage(r)
    \/ Respond(r) \/ TimerFire(r) \/ UpdateStats(r)
    \/ HandlerStoreFails(r) \/ TimerStoreFails(r)

NextFaults ==
    \E r \in RequestIds :
        \/ ReceiveAny(r)
        \/ FindUser(r)
        \/ FindSession(r)
        \/ CreateSession(r)
        \/ AddUserMessage(r)
        \/ Respond(r)
        \/ TimerFire(r)
        \/ UpdateStats(r)
        \/ HandlerStoreFails(r)
        \/ TimerStoreFails(r)

\* where each request's handler stands; every step of a request moves it
pcs == [r \in RequestIds |-> requests[r].pc]

\* the event loop runs every settled promise's continuation and every due
\* timer: an arrived request keeps taking its steps
SpecFaults ==
    /\ InitChat
    /\ [][NextFaults]_vars
    /\ \A r \in RequestIds : WF_pcs(Proceeds(r))

-----------------------------------------------------------------------------
(* POST /api/chat/feedback, GET /api/chat/history/:sessionId? and           *)
(* GET /api/chat/analytics: each a single store operation and its response  *)

\* body("rating").isInt({ min: 1, max: 5 })
MinRating == 1
MaxRating == 5

\* the strings isUUID(4) accepts
isUUID(sessionId) ==
    sessionId \in {"uuid-client-1"} \cup {uuidv4(r) : r \in RequestIds}

\* the ratings, session ids and feedback texts ("" for none) clients send
RatingInputs == (MinRating - 1)..(MaxRating + 1)
FeedbackSessionIds == {"uuid-client-1", uuidv4(2), "not-a-uuid"}
FeedbackTexts == {""}

\* the filter without its farmer condition
matching_AnyFarmer(logs, farmer, sessionId) ==
    {i \in DOMAIN logs : sessionId # "" => logs[i].sessionId = sessionId}

\* the documents a filter { farmer } or { sessionId, farmer } selects
matching(logs, farmer, sessionId) ==
    {i \in DOMAIN logs :
        /\ logs[i].farmer = farmer
        /\ sessionId # "" => logs[i].sessionId = sessionId}

\* resolved: rating > 4
resolved_AboveFour(rating) == rating > 4

\* resolved: rating >= 4
resolved(rating) == rating >= 4

\* POST /feedback with a session id and a rating of the given sets: the
\* validation chain, ChatLog.findOneAndUpdate({ sessionId, farmer },
\* { satisfaction: { rating, feedback }, resolved }), which updates the
\* first document the filter selects, and the response
FeedbackOf(sessionIds, ratings) ==
    \E uid \in DOMAIN users, sessionId \in sessionIds,
       rating \in ratings, feedback \in FeedbackTexts :
        LET valid == /\ isUUID(sessionId)
                     /\ rating >= MinRating /\ rating <= MaxRating
            found == matching(chatLogs, uid, sessionId)
            i == CHOOSE i \in found : \A j \in found : i <= j
            call == [route |-> "feedback", by |-> uid, sessionId |-> sessionId,
                     rating |-> rating, feedback |-> feedback]
        IN  /\ chatLogs' =
                  IF valid /\ found # {}
                    THEN [chatLogs EXCEPT
                             ![i].satisfaction =
                                 [rating |-> rating, feedback |-> feedback],
                             ![i].resolved = resolved(rating)]
                    ELSE chatLogs
            /\ apiResponse' =
                  IF ~valid THEN call @@ [status |-> 400]
                  ELSE IF found = {} THEN call @@ [status |-> 404]
                  ELSE call @@ [status |-> 200, id |-> i]
    /\ UNCHANGED <<coreVars, random, users, requests, detections>>

Feedback == FeedbackOf(FeedbackSessionIds, RatingInputs)

\* feedback on the client's session id with the two ratings around the
\* limit of resolved
FeedbackAroundFour == FeedbackOf({"uuid-client-1"}, {3, 4})

\* the documents of a set of positions, the latest created first
RECURSIVE latestFirst(_)
latestFirst(ids) ==
    IF ids = {} THEN <<>>
    ELSE LET i == CHOOSE i \in ids : \A j \in ids : j <= i
         IN  <<i>> \o latestFirst(ids \ {i})

\* GET /history/:sessionId?: ChatLog.find(query).sort({ createdAt: -1 }) with
\* query { farmer } or { farmer, sessionId }, first page; the response holds
\* the documents found, here by their positions
History ==
    /\ \E uid \in DOMAIN users, sessionId \in ClientSessionIds :
          apiResponse' =
              [route |-> "history", by |-> uid, sessionId |-> sessionId,
               status |-> 200,
               chats |-> latestFirst(matching(chatLogs, uid, sessionId))]
    /\ UNCHANGED <<coreVars, random, users, chatLogs, requests, detections>>

\* GET /analytics: aggregations and a find, all of them reads; the route
\* uses mongoose.Types.ObjectId in a file that does not require mongoose,
\* so it is answered from its catch
Analytics ==
    /\ \E uid \in DOMAIN users :
          apiResponse' = [route |-> "analytics", by |-> uid, status |-> 500]
    /\ UNCHANGED <<coreVars, random, users, chatLogs, requests, detections>>

NextApi ==
    \/ \E r \in RequestIds :
          \/ Receive(r)
          \/ FindUser(r)
          \/ FindSession(r)
          \/ CreateSession(r)
          \/ AddUserMessage(r)
          \/ Respond(r)
          \/ TimerFire(r)
          \/ UpdateStats(r)
    \/ FeedbackAroundFour
    \/ History
    \/ Analytics

SpecApi == InitChat /\ [][NextApi]_vars

\* the store after two requests with the trend message ran one after the
\* other: farmerB's with the session id "uuid-client-1", then farmerA's
\* with none
StoredSessions ==
    LET text == trim(CHOOSE t \in ChatTexts : validMessage(trim(t)))
        transcript(uid) ==
            << messageEntry("user", text, "text", <<>>),
               messageEntry("bot", getBotResponse(text, InitialUsers[uid], 0), "text",
                            [intent |-> detectIntent(text),
                             confidence |-> ConfidenceHundredths]) >>
        chatLog(uid, sessionId) ==
            [farmer |-> uid, sessionId |-> sessionId,
             messages |-> transcript(uid), totalMessages |-> 2,
             satisfaction |-> Unrated, resolved |-> FALSE]
    IN  << chatLog("farmerB", "uuid-client-1"), chatLog("farmerA", uuidv4(2)) >>

InitFeedback ==
    /\ message = <<>>
    /\ user = EmptyContext
    /\ intent = NoIntent
    /\ botResponse = NoValue
    /\ prevResponse = NoValue
    /\ random = NoRandom
    /\ users = InitialUsers
    /\ chatLogs = StoredSessions
    /\ requests = [r \in RequestIds |-> IdleRequest]
    /\ apiResponse = NoResponse
    /\ detections = <<>>

NextFeedback == Feedback \/ History \/ Analytics

SpecFeedback == InitFeedback /\ [][NextFeedback]_vars

-----------------------------------------------------------------------------
(* routes/diseases: POST /api/diseases/predict and PUT /api/diseases/:id/   *)
(* status, one action per stretch of code between two awaits.  Of a         *)
(* DiseaseDetection the model keeps the owner, the crop, whether the backup *)
(* path wrote it, status and treatmentResult.                               *)

\* the number of predict and status requests of a behaviour
MaxCalls == 3
\* body("cropType").trim().isLength({ min: 2, max: 50 })
MinCropTypeLength == 2
MaxCropTypeLength == 50

CallIds == 1..MaxCalls

\* the users as registration leaves them: every stats counter at its default
RegisteredUsers ==
    [u \in DOMAIN InitialUsers |->
        [InitialUsers[u] EXCEPT !.stats.diseasesDetected = number(0),
                                !.stats.treatmentsApplied = number(0)]]

\* the cropType values clients send: one too short, one allowed
CropTypeTexts == { <<"w">>, <<"w", "h", "e", "a", "t">> }

validCropType(text) ==
    /\ Len(text) >= MinCropTypeLength
    /\ Len(text) <= MaxCropTypeLength

\* body("status").isIn([...])
DetectionStatuses == {"Active", "Treated", "Resolved", "Archived"}

\* the status and treatmentResult values clients send ("" for none); "Cured"
\* is outside the validated list
StatusValues == {"Treated", "Cured"}
TreatmentResultValues == {"", "Successful"}

\* a request that has not arrived yet
IdleCall ==
    [pc |-> "idle", route |-> "", userId |-> "", cropType |-> <<>>, id |-> 0,
     newStatus |-> "", treatmentResult |-> "", status |-> 0]

InitDisease ==
    /\ message = <<>>
    /\ user = EmptyContext
    /\ intent = NoIntent
    /\ botResponse = NoValue
    /\ prevResponse = NoValue
    /\ random = NoRandom
    /\ users = RegisteredUsers
    /\ chatLogs = <<>>
    /\ requests = [c \in CallIds |-> IdleCall]
    /\ apiResponse = NoResponse
    /\ detections = <<>>

\* new DiseaseDetection({ farmer: req.user.userId, cropType, ... }) and its
\* save(); status and treatmentResult take the schema's defaults
savedDetection(call, backup) ==
    Append(detections,
           [farmer |-> call.userId, cropType |-> call.cropType, backup |-> backup,
            status |-> "Active", treatmentResult |-> "Pending"])

\* POST /predict with an image: auth, the validation chain, and the handler
\* up to the call of the ML service
ReceivePredict(c) ==
    /\ requests[c].pc = "idle"
    /\ \A q \in 1..(c - 1) : requests[q].pc # "idle"
    /\ \E uid \in DOMAIN users, text \in CropTypeTexts :
          requests' = [requests EXCEPT ![c] =
              IF validCropType(trim(text))
                THEN [@ EXCEPT !.pc = "ml", !.route = "predict", !.userId = uid,
                               !.cropType = trim(text)]
                ELSE [@ EXCEPT !.pc = "done", !.route = "predict", !.userId = uid,
                               !.status = 400]]
    /\ UNCHANGED <<coreVars, random, users, chatLogs, apiVars>>

\* the ML service answered: the detection is built and saved
SaveDetection(c) ==
    /\ requests[c].pc = "ml"
    /\ detections' = savedDetection(requests[c], FALSE)
    /\ requests' = [requests EXCEPT ![c] = [@ EXCEPT !.pc = "incDetected"]]
    /\ UNCHANGED <<coreVars, random, users, chatLogs, apiResponse>>

\* User.findByIdAndUpdate(userId, { $inc: { "stats.diseasesDetected": 1 } })
IncDetected(c) ==
    /\ requests[c].pc = "incDetected"
    /\ users' = [users EXCEPT ![requests[c].userId].stats.diseasesDetected =
                    number(@.number + 1)]
    /\ requests' = [requests EXCEPT ![c] = [@ EXCEPT !.pc = "findTreatments"]]
    /\ UNCHANGED <<coreVars, random, chatLogs, apiVars>>

\* Treatment.find(...) resolved, res.json
FindTreatments(c) ==
    /\ requests[c].pc = "findTreatments"
    /\ requests' = [requests EXCEPT ![c] = [@ EXCEPT !.pc = "done", !.status = 200]]
    /\ UNCHANGED <<coreVars, random, users, chatLogs, apiVars>>

\* catch (mlError): the ML call, or an await after it in the same try,
\* rejected; a placeholder detection is saved and the answer is a success
Fallback(c) ==
    /\ requests[c].pc \in {"ml", "incDetected", "findTreatments"}
    /\ detections' = savedDetection(requests[c], TRUE)
    /\ requests' = [requests EXCEPT ![c] = [@ EXCEPT !.pc = "done", !.status = 200]]
    /\ UNCHANGED <<coreVars, random, users, chatLogs, apiResponse>>

\* PUT /:id/status: auth, the validation chain, and the handler up to
\* DiseaseDetection.findOneAndUpdate; a detection's _id is its position
ReceiveStatus(c) ==
    /\ requests[c].pc = "idle"
    /\ \A q \in 1..(c - 1) : requests[q].pc # "idle"
    /\ \E uid \in DOMAIN users, id \in CallIds, st \in StatusValues,
          result \in TreatmentResultValues :
          requests' = [requests EXCEPT ![c] =
              IF st \in DetectionStatuses
                THEN [@ EXCEPT !.pc = "findDetection", !.route = "status",
                               !.userId = uid, !.id = id, !.newStatus = st,
                               !.treatmentResult = result]
                ELSE [@ EXCEPT !.pc = "done", !.route = "status", !.userId = uid,
                               !.id = id, !.status = 400]]
    /\ UNCHANGED <<coreVars, random, users, chatLogs, apiVars>>

\* DiseaseDetection.findOneAndUpdate({ _id: id, farmer: req.user.userId },
\* { status, ...(treatmentResult && { treatmentResult }) }) resolved
SetStatus(c) ==
    /\ requests[c].pc = "findDetection"
    /\ LET call == requests[c]
           found == /\ call.id \in DOMAIN detections
                    /\ detections[call.id].farmer = call.userId
       IN  /\ detections' =
                 IF found
                   THEN [detections EXCEPT
                            ![call.id].status = call.newStatus,
                            ![call.id].treatmentResult =
                                IF call.treatmentResult # ""
                                  THEN call.treatmentResult ELSE @]
                   ELSE detections
           /\ requests' = [requests EXCEPT ![c] =
                 IF ~found THEN [@ EXCEPT !.pc = "done", !.status = 404]
                 ELSE IF call.treatmentResult = "Successful"
                   THEN [@ EXCEPT !.pc = "incApplied"]
                   ELSE [@ EXCEPT !.pc = "done", !.status = 200]]
    /\ UNCHANGED <<coreVars, random, users, chatLogs, apiResponse>>

\* User.findByIdAndUpdate(userId, { $inc: { "stats.treatmentsApplied": 1 } })
\* and res.json
IncApplied(c) ==
    /\ requests[c].pc = "incApplied"
    /\ users' = [users EXCEPT ![requests[c].userId].stats.treatmentsApplied =
                    number(@.number + 1)]
    /\ requests' = [requests EXCEPT ![c] = [@ EXCEPT !.pc = "done", !.status = 200]]
    /\ UNCHANGED <<coreVars, random, chatLogs, apiVars>>

NextDisease ==
    \E c \in CallIds :
        \/ ReceivePredict(c)
        \/ SaveDetection(c)
        \/ IncDetected(c)
        \/ FindTreatments(c)
        \/ Fallback(c)
        \/ ReceiveStatus(c)
        \/ SetStatus(c)
        \/ IncApplied(c)

SpecDisease == InitDisease /\ [][NextDisease]_vars

-----------------------------------------------------------------------------
(* The specification's rule table and context defaults, as the claims state them *)

\* the eight keyword rules in their fixed order
RuleKeywords ==
    << {kw_disease, kw_sick, kw_problem},
       {kw_water, kw_irrigation},
       {kw_fertilizer, kw_nutrients},
       {kw_weather, kw_rain},
       {kw_harvest, kw_ready},
       {kw_trend, kw_statistics},
       {kw_treatment, kw_cure},
       {kw_help, kw_what_can_you_do} >>

\* the tag of each rule's intent, and of GeneralQuery in ninth place
IntentTag ==
    << "disease_detection", "irrigation_advice", "fertilizer_recommendation",
       "weather_query", "harvest_timing", "trend_inquiry", "treatment_advice",
       "help_request", "general_query" >>

Intents == {IntentTag[r] : r \in DOMAIN IntentTag}

\* rule r has a keyword occurring in the lower-cased text
RuleMatches(r, text) ==
    \E kw \in RuleKeywords[r] : includes(toLowerCase(text), kw)

\* the first rule that matches the text, 9 when none does
FirstMatchingRule(text) ==
    IF \E r \in DOMAIN RuleKeywords : RuleMatches(r, text)
      THEN CHOOSE r \in DOMAIN RuleKeywords :
             /\ RuleMatches(r, text)
             /\ \A q \in 1..(r - 1) : ~RuleMatches(q, text)
      ELSE 9

\* the context has a primary crop with a non-empty name
HasCropName(u) ==
    /\ "farmDetails" \in DOMAIN u
    /\ "cropTypes" \in DOMAIN u.farmDetails
    /\ u.farmDetails.cropTypes # <<>>
    /\ "name" \in DOMAIN Head(u.farmDetails.cropTypes)
    /\ Head(u.farmDetails.cropTypes).name # ""

\* the context has a non-empty city
HasCity(u) ==
    /\ "farmDetails" \in DOMAIN u
    /\ "location" \in DOMAIN u.farmDetails
    /\ "city" \in DOMAIN u.farmDetails.location
    /\ u.farmDetails.location.city # ""

ContextCrop(u) == IF HasCropName(u) THEN Head(u.farmDetails.cropTypes).name ELSE "crops"

ContextCity(u) == IF HasCity(u) THEN u.farmDetails.location.city ELSE "your area"

\* the four generic fallback templates filled with a crop type and a location
FallbackTemplates(crop, city) ==
    << <<"Tell me more about your ", crop, " farming challenges in ", city, "!">>,
       <<"I'm here to help with your agricultural needs. Are you dealing with any plant diseases, irrigation concerns, or growth issues with your ",
         crop, "?">>,
       <<"What specific challenge can I help you solve on your farm today? I have data on ",
         crop, " best practices.">>,
       <<"I'd be happy to help! Your farm in ", city,
         " might be facing seasonal challenges - what's your main concern?">> >>

\* the positions of the crop-type placeholder in a reply, by its template
CropSlots(reply) ==
    CASE reply[1] \in {DiseaseOpening, FertilizerOpening, HarvestOpening,
                       Default1Opening, Default2Opening, Default3Opening} -> {2}
      [] reply[1] \in {WeatherOpening, TrendOpening} -> {4}
      [] reply[1] \in {IrrigationOpening, HelpOpening} -> {6}
      [] OTHER -> {}

\* the positions of the location placeholder in a reply, by its template
CitySlots(reply) ==
    CASE reply[1] \in {IrrigationOpening, WeatherOpening, TrendOpening,
                       Default4Opening} -> {2}
      [] reply[1] \in {DiseaseOpening, HelpOpening, Default1Opening} -> {4}
      [] OTHER -> {}

Composed == botResponse # NoValue
Classified == intent # NoIntent

-----------------------------------------------------------------------------
(* Claims *)

\* C1: the classifier returns the intent of the first of the eight rules, in
\* their fixed order, that has a keyword occurring in the lower-cased text,
\* and GeneralQuery when no rule has one.
C1_FirstMatchingRuleWins ==
    Classified => intent = IntentTag[FirstMatchingRule(message)]

\* the intent whose template a reply was composed from, by its opening
TemplateIntent(reply) ==
    CASE reply[1] = DiseaseOpening -> "disease_detection"
      [] reply[1] = IrrigationOpening -> "irrigation_advice"
      [] reply[1] = FertilizerOpening -> "fertilizer_recommendation"
      [] reply[1] = WeatherOpening -> "weather_query"
      [] reply[1] = HarvestOpening -> "harvest_timing"
      [] reply[1] = TrendOpening -> "trend_inquiry"
      [] reply[1] = TreatmentOpening -> "treatment_advice"
      [] reply[1] = HelpOpening -> "help_request"
      [] OTHER -> "general_query"

\* C2: every logged bot reply carries as metadata the intent whose template
\* produced it; a generic fallback reply, and no other, is tagged GeneralQuery.
C2_LoggedIntentMatchesReply ==
    \A i \in DOMAIN chatLogs :
        \A j \in DOMAIN chatLogs[i].messages :
            LET entry == chatLogs[i].messages[j] IN
            entry.sender = "bot" =>
                entry.metadata.intent = TemplateIntent(entry.message)

\* C3: a text with "trend" or "statistics" and no keyword of rules 1-5 is
\* never tagged TreatmentAdvice, HelpRequest or GeneralQuery.
C3_TrendNotLaterIntent ==
    (Classified /\ RuleMatches(6, message) /\ \A r \in 1..5 : ~RuleMatches(r, message))
        => intent \notin {"treatment_advice", "help_request", "general_query"}

\* C4: a text with the phrase "what can you do" and no keyword of rules 1-7
\* is classified HelpRequest, with or without the word "help".
C4_WhatCanYouDoIsHelp ==
    (/\ Classified
     /\ includes(toLowerCase(message), kw_what_can_you_do)
     /\ \A r \in 1..7 : ~RuleMatches(r, message))
        => intent = "help_request"

\* C5: classification is case-insensitive and depends on the text alone: in
\* every state, whatever the context and whatever was called before, the
\* intent of a text is the intent of its lower-cased form.
C5_ClassifyCaseInsensitive ==
    Classified => intent = detectIntent(toLowerCase(message))

\* C5 witness: a text with upper-case letters was classified by a keyword
\* that it only contains after lower-casing.
C5_Witness ==
    /\ Classified
    /\ message # toLowerCase(message)
    /\ intent = "disease_detection"
    /\ user # EmptyContext

\* C6: every text without any rule keyword, the empty string included, is
\* classified GeneralQuery, and the result is always one of the nine intents.
C6_NoKeywordIsGeneralQuery ==
    Classified =>
        /\ intent \in Intents
        /\ FirstMatchingRule(message) = 9 => intent = "general_query"

\* C6 witness: the empty string was classified GeneralQuery.
C6_Witness == message = <<>> /\ intent = "general_query"

\* C7: for a text that matches no rule the reply is one of the four fallback
\* templates with crop type and location filled from the context or their
\* defaults; nothing else (no out-of-pool read) is returned.
C7_FallbackIsOneOfFour ==
    (Composed /\ FirstMatchingRule(message) = 9) =>
        \E i \in 1..4 :
            botResponse = FallbackTemplates(ContextCrop(user), ContextCity(user))[i]

\* C7 witness: the fourth fallback template was returned with the city of
\* the context.
C7_Witness ==
    /\ Composed
    /\ FirstMatchingRule(message) = 9
    /\ botResponse[1] = Default4Opening
    /\ botResponse[2] = "Pune"

C9_RuleReplyDeterministic ==
    (prevResponse # NoValue /\ FirstMatchingRule(message) # 9)
        => botResponse = prevResponse

\* C9 witness: a text matching the help rule was answered twice.
C9_Witness ==
    /\ FirstMatchingRule(message) = 8
    /\ prevResponse # NoValue
    /\ botResponse = prevResponse

\* C10: wherever a reply interpolates crop type or location, the crop type
\* is the primary crop name of the context, or "crops" when that is absent
\* or empty, and the location is its city, or "your area" likewise.
C10_PlaceholdersFromContext ==
    (Composed /\ botResponse # Undefined) =>
        /\ \A i \in CropSlots(botResponse) : botResponse[i] = ContextCrop(user)
        /\ \A i \in CitySlots(botResponse) : botResponse[i] = ContextCity(user)

\* C10 witness: a reply was composed for a context whose primary crop has an
\* empty name and whose city is set.
C10_Witness ==
    /\ Composed
    /\ botResponse[1] = DiseaseOpening
    /\ "farmDetails" \in DOMAIN user
    /\ "cropTypes" \in DOMAIN user.farmDetails
    /\ user.farmDetails.cropTypes = <<[name |-> ""]>>
    /\ botResponse[2] = "crops"
    /\ botResponse[4] = "Pune"

-----------------------------------------------------------------------------
(* The counts of the context, as the claims state them *)

HasCount(u, field) == "stats" \in DOMAIN u /\ field \in DOMAIN u.stats

\* every count the context holds is a number
WellTypedCounts(u) ==
    \A field \in {"diseasesDetected", "treatmentsApplied"} :
        HasCount(u, field) => "number" \in DOMAIN u.stats[field]

\* a count of a context with well-typed counts, 0 when it is absent
ContextCount(u, field) == IF HasCount(u, field) THEN u.stats[field].number ELSE 0

HasIrrigationType(u) ==
    /\ "farmDetails" \in DOMAIN u
    /\ "irrigationType" \in DOMAIN u.farmDetails
    /\ u.farmDetails.irrigationType # ""

HasSoilType(u) ==
    /\ "farmDetails" \in DOMAIN u
    /\ "soilType" \in DOMAIN u.farmDetails
    /\ u.farmDetails.soilType # ""

Max(a, b) == IF a >= b THEN a ELSE b

\* t / d in percent, rounded to the nearest integer, a half upwards (d > 0)
RoundedPercent(t, d) ==
    CHOOSE p \in 0..(100 * t) :
        /\ 2 * p * d - d <= 200 * t
        /\ 200 * t < 2 * p * d + d

\* C11: the reply to a message of rule 1 (DiseaseDetection) contains the
\* context's crop and city, and its success rate is "92%" exactly when
\* diseasesDetected > 0, whatever the positive count, and "new - let's start
\* building your success rate!" when the count is 0 or absent.
C11_DiseaseReplyRate ==
    (Composed /\ FirstMatchingRule(message) = 1 /\ WellTypedCounts(user)) =>
        /\ botResponse[1] = DiseaseOpening
        /\ botResponse[2] = ContextCrop(user)
        /\ botResponse[4] = ContextCity(user)
        /\ botResponse[6] =
              IF ContextCount(user, "diseasesDetected") > 0
                THEN "92%"
                ELSE "new - let's start building your success rate!"

\* a disease reply to a farmer with one detected disease, showing "92%"
C11_Witness ==
    /\ Composed
    /\ FirstMatchingRule(message) = 1
    /\ HasCount(user, "diseasesDetected")
    /\ user.stats.diseasesDetected = number(1)
    /\ HasCropName(user) /\ HasCity(user)
    /\ botResponse[6] = "92%"

\* C12: the reply to a message of rule 7 (TreatmentAdvice) embeds
\* round(treatmentsApplied / max(diseasesDetected, 1) * 100) followed by "%"
\* when treatmentsApplied > 0, and "just getting started" when
\* treatmentsApplied is 0 or absent, for all non-negative integer counts.
C12_TreatmentRateRounded ==
    (Composed /\ FirstMatchingRule(message) = 7 /\ WellTypedCounts(user)) =>
        /\ botResponse[1] = TreatmentOpening
        /\ botResponse[2] =
              IF ContextCount(user, "treatmentsApplied") > 0
                THEN ToString(RoundedPercent(
                         ContextCount(user, "treatmentsApplied"),
                         Max(ContextCount(user, "diseasesDetected"), 1))) \o "%"
                ELSE "just getting started"

\* C13: the reply to a message of rule 2 (IrrigationAdvice) interpolates the
\* context's irrigation type, "your irrigation system" when there is none,
\* and the context's location and crop type.
C13_IrrigationReplySlots ==
    (Composed /\ FirstMatchingRule(message) = 2) =>
        /\ botResponse[1] = IrrigationOpening
        /\ botResponse[2] = ContextCity(user)
        /\ botResponse[4] = IF HasIrrigationType(user)
                              THEN user.farmDetails.irrigationType
                              ELSE "your irrigation system"
        /\ botResponse[6] = ContextCrop(user)

\* an irrigation reply naming the farm's own irrigation type
C13_Witness ==
    /\ Composed
    /\ FirstMatchingRule(message) = 2
    /\ HasIrrigationType(user)
    /\ ~HasSoilType(user)
    /\ botResponse[4] = "Drip"

\* C14: a message with "fertilizer" or "nutrients" and no keyword of rules 1-2
\* is classified FertilizerRecommendation and answered with the fertilizer
\* template holding the context's crop type and its soil type, "detected
\* soil" when there is none.
C14_FertilizerEndToEnd ==
    (/\ Classified /\ Composed
     /\ RuleMatches(3, message)
     /\ ~RuleMatches(1, message) /\ ~RuleMatches(2, message)) =>
        /\ intent = "fertilizer_recommendation"
        /\ botResponse[1] = FertilizerOpening
        /\ botResponse[2] = ContextCrop(user)
        /\ botResponse[4] = IF HasSoilType(user)
                              THEN user.farmDetails.soilType
                              ELSE "detected soil"

\* a fertilizer message, classified and answered for a farm with no soil type
C14_Witness ==
    /\ Classified /\ Composed
    /\ RuleMatches(3, message)
    /\ ~RuleMatches(1, message) /\ ~RuleMatches(2, message)
    /\ HasCropName(user)
    /\ ~HasSoilType(user)
    /\ botResponse[4] = "detected soil"

\* C15: the reply to a message of rule 8 (HelpRequest) interpolates
\* diseasesDetected, 0 when the count is absent, and the context's location
\* and crop type.
C15_HelpReplyCount ==
    (Composed /\ FirstMatchingRule(message) = 8 /\ WellTypedCounts(user)) =>
        /\ botResponse[1] = HelpOpening
        /\ botResponse[2] = ToString(ContextCount(user, "diseasesDetected"))
        /\ botResponse[4] = ContextCity(user)
        /\ botResponse[6] = ContextCrop(user)

\* a help reply to a farmer with three detected diseases
C15_Witness ==
    /\ Composed
    /\ FirstMatchingRule(message) = 8
    /\ HasCount(user, "diseasesDetected")
    /\ user.stats.diseasesDetected = number(3)
    /\ botResponse[2] = "3"
\* the strings a reply is made of when every placeholder takes its default
DefaultSlots(rule) ==
    CASE rule = 1 -> 6 :> "new - let's start building your success rate!"
      [] rule = 2 -> 4 :> "your irrigation system"
      [] rule = 3 -> 4 :> "detected soil"
      [] rule = 7 -> 2 :> "just getting started"
      [] rule = 8 -> 2 :> "0"
      [] OTHER -> <<>>

\* C16: for a message of each of the eight rules and of none, composing with
\* the empty context {} returns a non-empty string in which every placeholder
\* has its documented default: "crops", "your area", "your irrigation
\* system", "detected soil", 0, "new - let's start building your success
\* rate!" and "just getting started".
C16_EmptyContextDefaults ==
    (Composed /\ user = EmptyContext) =>
        LET rule == FirstMatchingRule(message)
        IN  /\ botResponse # Undefined
            /\ botResponse # <<>>
            /\ \A i \in DOMAIN botResponse : botResponse[i] \notin {"", "undefined"}
            /\ \A i \in CropSlots(botResponse) : botResponse[i] = "crops"
            /\ \A i \in CitySlots(botResponse) : botResponse[i] = "your area"
            /\ \A i \in DOMAIN DefaultSlots(rule) :
                  botResponse[i] = DefaultSlots(rule)[i]
            /\ rule = 9 =>
                  \E i \in 1..4 : botResponse = FallbackTemplates("crops", "your area")[i]

\* a disease reply composed for the empty context
C16_Witness ==
    /\ Composed
    /\ user = EmptyContext
    /\ FirstMatchingRule(message) = 1
    /\ botResponse[2] = "crops"
    /\ botResponse[4] = "your area"
    /\ botResponse[6] = "new - let's start building your success rate!"

\* the context without the counts that are not numbers
WithoutMalformedCounts(u) ==
    IF "stats" \in DOMAIN u
      THEN [u EXCEPT !.stats =
              [field \in {f \in DOMAIN u.stats : "number" \in DOMAIN u.stats[f]}
                 |-> u.stats[field]]]
      ELSE u

\* C17: when a count of the context is not a number, the composer returns the
\* reply it returns when that count is absent.
C17_MalformedCountAsAbsent ==
    (Composed /\ ~WellTypedCounts(user)) =>
        botResponse = getBotResponse(message, WithoutMalformedCounts(user),
                                     IF random = NoRandom THEN 0 ELSE random)
-----------------------------------------------------------------------------
(* The message handler *)

\* request r was answered with success
Succeeded(r) == requests[r].status = 200

\* request r has run its timer callback's append
BotLogged(r) == Succeeded(r) /\ requests[r].pc \in {"updateStats", "done"}

\* the stored transcript of the session request r works on
TranscriptOf(r) == chatLogs[requests[r].chatSession.id].messages

\* C18: for each message processed with success, the session log holds the
\* user's message, as the handler was given it and not lower-cased, with
\* sender "user", and after it the composed reply with sender "bot" whose
\* metadata are the classified intent and the confidence 0.85.
C18_UserThenBotEntry ==
    \A r \in RequestIds :
        BotLogged(r) =>
            \E i, j \in DOMAIN TranscriptOf(r) :
                /\ i < j
                /\ TranscriptOf(r)[i].sender = "user"
                /\ TranscriptOf(r)[i].message = requests[r].message
                /\ requests[r].message = trim(requests[r].body)
                /\ TranscriptOf(r)[j].sender = "bot"
                /\ TranscriptOf(r)[j].message = requests[r].botResponse
                /\ TranscriptOf(r)[j].metadata.intent
                      = detectIntent(requests[r].message)
                /\ TranscriptOf(r)[j].metadata.intent \in Intents
                /\ TranscriptOf(r)[j].metadata.confidence = 85
                /\ TranscriptOf(r)[j].metadata.confidence \in 0..100

\* two requests of one session are through, each with its two entries logged
C18_Witness ==
    /\ \A r \in {1, 2} : BotLogged(r) /\ requests[r].pc = "done"
    /\ requests[1].chatSession.id = requests[2].chatSession.id
    /\ Len(TranscriptOf(1)) = 4
    /\ TranscriptOf(1)[1].sender = "user" /\ TranscriptOf(1)[2].sender = "user"
    /\ TranscriptOf(1)[3].sender = "bot" /\ TranscriptOf(1)[4].sender = "bot"

\* a step appends an entry to a stored transcript
AppendsEntry ==
    \E i \in DOMAIN chatLogs :
        Len(chatLogs'[i].messages) > Len(chatLogs[i].messages)

\* the entry such a step appends
AppendedEntry ==
    LET i == CHOOSE i \in DOMAIN chatLogs :
                 Len(chatLogs'[i].messages) > Len(chatLogs[i].messages)
    IN  chatLogs'[i].messages[Len(chatLogs'[i].messages)]

\* request r takes the step
Steps(r) == requests'[r].pc # requests[r].pc

\* C19: no entry is appended to a session log by a request whose reply has
\* not been composed yet.
C19_ComposedBeforeAnyAppend ==
    [][\A r \in RequestIds :
          (Steps(r) /\ AppendsEntry) => requests[r].botResponse # NoValue]_vars

\* C19, amended: the handler appends the user message first, composes the
\* reply after that append, and appends the bot reply, with the intent
\* computed at that append, only after the reply is composed.
C19_UserAppendComposeBotAppend ==
    [][\A r \in RequestIds : Steps(r) =>
          /\ (requests[r].botResponse = NoValue /\ requests'[r].botResponse # NoValue) =>
                LET local == requests[r].chatSession.messages
                IN  /\ local # <<>>
                    /\ local[Len(local)].sender = "user"
                    /\ local[Len(local)].message = requests[r].message
                    /\ \E i \in DOMAIN TranscriptOf(r) :
                          TranscriptOf(r)[i] = local[Len(local)]
          /\ AppendsEntry =>
                IF requests[r].botResponse = NoValue
                  THEN /\ AppendedEntry.sender = "user"
                       /\ AppendedEntry.message = requests[r].message
                  ELSE /\ AppendedEntry.sender = "bot"
                       /\ AppendedEntry.message = requests[r].botResponse
                       /\ AppendedEntry.metadata.intent
                             = detectIntent(requests[r].message)]_vars

\* a request has appended its user message, composed its reply and appended it
C19_Witness ==
    \E r \in RequestIds :
        /\ BotLogged(r)
        /\ requests[r].botResponse # NoValue
        /\ \E i, j \in DOMAIN TranscriptOf(r) :
              /\ i < j
              /\ TranscriptOf(r)[i].sender = "user"
              /\ TranscriptOf(r)[j].message = requests[r].botResponse

\* request r has arrived with a message that is blank or over the limit
Rejectable(r) ==
    /\ requests[r].pc # "idle"
    /\ \/ Len(trim(requests[r].body)) = 0
       \/ Len(trim(requests[r].body)) > 1000

\* the requests that have arrived with a message of an allowed length
Accepted == {r \in RequestIds : requests[r].pc # "idle" /\ ~Rejectable(r)}

\* C20: a message whose trimmed length is 0 or above 1000 is answered with
\* the validation failure and leaves no trace: the request creates no
\* session, appends no message, composes no reply and changes no user stat,
\* so sessions, entries and stats changes are those of the other requests.
C20_InvalidMessageRejected ==
    /\ \A r \in RequestIds :
          Rejectable(r) =>
              /\ requests[r].status = 400
              /\ requests[r].pc = "done"
              /\ requests[r].user = NotLoaded
              /\ requests[r].chatSession = NotLoaded
              /\ requests[r].botResponse = NoValue
    /\ Len(chatLogs) <= Cardinality(Accepted)
    /\ \A i \in DOMAIN chatLogs :
          /\ Len(chatLogs[i].messages)
                <= 2 * Cardinality({r \in Accepted : requests[r].userId = chatLogs[i].farmer})
          /\ \A n \in DOMAIN chatLogs[i].messages :
                chatLogs[i].messages[n].sender = "user" =>
                    /\ Len(chatLogs[i].messages[n].message) >= 1
                    /\ Len(chatLogs[i].messages[n].message) <= 1000
    /\ \A u \in DOMAIN users :
          users[u].stats.totalQueries - InitialUsers[u].stats.totalQueries
              <= Cardinality({r \in Accepted : requests[r].userId = u})

\* a blank message and one of 1001 characters were rejected: nothing is stored
C20_Witness ==
    /\ Rejectable(1) /\ Rejectable(2)
    /\ Len(trim(requests[1].body)) = 0
    /\ Len(trim(requests[2].body)) = 1001
    /\ requests[1].status = 400 /\ requests[2].status = 400
    /\ chatLogs = <<>>
    /\ users = InitialUsers
-----------------------------------------------------------------------------
(* The stored sessions under interleaved requests                           *)

\* C21: at most one stored ChatLog carries a given sessionId, whatever the
\* order of requests, also when a request names a session id that another
\* farmer's session holds or two first requests carry the same new id.
C21_OneChatLogPerSessionId ==
    \A i, j \in DOMAIN chatLogs :
        chatLogs[i].sessionId = chatLogs[j].sessionId => i = j

\* C24: in every stored transcript the senders alternate user, bot, user,
\* bot, and each bot entry follows the user entry it answers, also when two
\* requests of one session are in flight.
C24_SendersAlternate ==
    \A i \in DOMAIN chatLogs :
        \A n \in DOMAIN chatLogs[i].messages :
            chatLogs[i].messages[n].sender = IF n % 2 = 1 THEN "user" ELSE "bot"

\* C25: in every stored ChatLog totalMessages is the number of entries of
\* messages, after any interleaving of addMessage calls, also those of two
\* handlers that each loaded the document on their own.
C25_TotalMessagesIsLength ==
    \A i \in DOMAIN chatLogs :
        chatLogs[i].totalMessages = Len(chatLogs[i].messages)
\* the reply of request r is an entry of its session's stored transcript
ReplyLogged(r) ==
    /\ Succeeded(r)
    /\ \E n \in DOMAIN TranscriptOf(r) :
          /\ TranscriptOf(r)[n].sender = "bot"
          /\ TranscriptOf(r)[n].message = requests[r].botResponse

\* C23: whenever the handler has answered a request with success and a
\* botResponse text, the session log eventually holds a bot entry with that
\* text: the delayed append always completes.
C23_ReplyEventuallyLogged ==
    \A r \in RequestIds : [](Succeeded(r) => <>ReplyLogged(r))

\* request r passed validation and was answered with an error
EndedInError(r) == requests[r].pc = "done" /\ requests[r].status \in {404, 500}

\* the validated requests that have arrived and were not answered with an error
NotInError ==
    {r \in RequestIds :
        /\ requests[r].pc # "idle"
        /\ requests[r].status \notin {400, 404, 500}}

\* C26: a validated request that ends in an error response (404, or 500
\* after a failed store operation) has persisted nothing, so every stored
\* session and every stored entry is that of a request not ended in error.
C26_ErrorPersistsNothing ==
    /\ Len(chatLogs) <= Cardinality(NotInError)
    /\ \A i \in DOMAIN chatLogs :
          Len(chatLogs[i].messages) <= 2 * Cardinality(NotInError)
-----------------------------------------------------------------------------
(* The chat routes together                                                 *)

\* request r takes a step that is a call of addMessage
CallsAddMessage(r) ==
    \/ requests[r].pc = "addUserMessage" /\ requests'[r].pc = "compose"
    \/ requests[r].pc = "timer" /\ requests'[r].pc = "updateStats"

\* C22: a stored transcript only grows at its end: a call of addMessage
\* extends its session's stored sequence by exactly one entry, the new last
\* one, and no step of the message, feedback, history and analytics routes
\* removes a session, or removes, reorders or changes a stored entry.
C22_TranscriptAppendOnly ==
    [][/\ Len(chatLogs') >= Len(chatLogs)
       /\ \A i \in DOMAIN chatLogs :
             LET old == chatLogs[i].messages
                 new == chatLogs'[i].messages
             IN  /\ Len(new) \in {Len(old), Len(old) + 1}
                 /\ SubSeq(new, 1, Len(old)) = old
       /\ \A r \in RequestIds : CallsAddMessage(r) =>
             LET i == requests[r].chatSession.id
                 new == chatLogs'[i].messages
             IN  /\ Len(new) = Len(chatLogs[i].messages) + 1
                 /\ new[Len(new)].sender =
                       IF requests[r].pc = "timer" THEN "bot" ELSE "user"
                 /\ new[Len(new)].message =
                       IF requests[r].pc = "timer"
                         THEN requests[r].botResponse ELSE requests[r].message]_vars

\* a session holds the entries of two requests, was rated, and its owner's
\* history was fetched after that
C22_Witness ==
    \E i \in DOMAIN chatLogs :
        /\ Len(chatLogs[i].messages) = 4
        /\ chatLogs[i].satisfaction # Unrated
        /\ apiResponse.route = "history"
        /\ apiResponse.chats = <<i>>

\* C27: a request of farmer A never appends to, rates, or is sent in its
\* history a ChatLog of another farmer, also when it names a session id that
\* another farmer's session holds.
C27_SessionsPerFarmer ==
    [][/\ \A r \in RequestIds : (Steps(r) /\ AppendsEntry) =>
             \A i \in DOMAIN chatLogs :
                 Len(chatLogs'[i].messages) > Len(chatLogs[i].messages) =>
                     chatLogs[i].farmer = requests[r].userId
       /\ \A i \in DOMAIN chatLogs :
             (\/ chatLogs'[i].satisfaction # chatLogs[i].satisfaction
              \/ chatLogs'[i].resolved # chatLogs[i].resolved) =>
                 /\ apiResponse'.route = "feedback"
                 /\ apiResponse'.by = chatLogs[i].farmer
       /\ apiResponse'.route = "history" =>
             \A n \in DOMAIN apiResponse'.chats :
                 chatLogs'[apiResponse'.chats[n]].farmer = apiResponse'.by
       /\ (apiResponse'.route = "feedback" /\ apiResponse'.status = 200) =>
             chatLogs'[apiResponse'.id].farmer = apiResponse'.by]_vars

\* farmerB's session holds the id "uuid-client-1"; farmerA named that id in
\* a message, in a feedback and in a history request: the message and the
\* rating went to a session of farmerA's own, the history holds only that one
C27_Witness ==
    \E i, j \in DOMAIN chatLogs :
        /\ i < j
        /\ chatLogs[i].farmer = "farmerB" /\ chatLogs[i].sessionId = "uuid-client-1"
        /\ chatLogs[j].farmer = "farmerA" /\ chatLogs[j].sessionId = "uuid-client-1"
        /\ Len(chatLogs[i].messages) = 2 /\ Len(chatLogs[j].messages) = 2
        /\ chatLogs[i].satisfaction = Unrated
        /\ chatLogs[j].satisfaction # Unrated
        /\ apiResponse.route = "history"
        /\ apiResponse.by = "farmerA"
        /\ apiResponse.sessionId = "uuid-client-1"
        /\ apiResponse.chats = <<j>>

\* C30: a feedback request with a rating r in 1..5 on a UUID that a
\* session of the caller holds is answered with success, and that session
\* then stores r as its rating and is resolved exactly when r >= 4, also
\* after an earlier higher rating; one on a UUID that no session of the
\* caller holds is answered not-found; every feedback request leaves all
\* other sessions, and without success all sessions, as they were.
C30_FeedbackStoresRating ==
    [][LET call == apiResponse'
       IN  call.route = "feedback" =>
             LET wellFormed == /\ call.rating \in 1..5
                               /\ isUUID(call.sessionId)
                 own == {i \in DOMAIN chatLogs :
                            /\ chatLogs[i].farmer = call.by
                            /\ chatLogs[i].sessionId = call.sessionId}
             IN  /\ wellFormed => call.status = IF own = {} THEN 404 ELSE 200
                 /\ ~wellFormed => call.status = 400
                 /\ call.status = 200 =>
                       /\ call.id \in own
                       /\ chatLogs'[call.id].satisfaction.rating = call.rating
                       /\ chatLogs'[call.id].resolved = (call.rating >= 4)
                       /\ chatLogs'[call.id].messages = chatLogs[call.id].messages
                       /\ \A i \in DOMAIN chatLogs \ {call.id} :
                             chatLogs'[i] = chatLogs[i]
                 /\ call.status # 200 => chatLogs' = chatLogs]_vars

\* farmerB's session is rated 5 and resolved, farmerA's is rated 3 and not
\* resolved, and farmerA's feedback on farmerB's session id was answered
\* not-found
C30_Witness ==
    /\ chatLogs[1].farmer = "farmerB"
    /\ chatLogs[1].satisfaction = [rating |-> 5, feedback |-> ""]
    /\ chatLogs[1].resolved
    /\ chatLogs[2].farmer = "farmerA"
    /\ chatLogs[2].satisfaction = [rating |-> 3, feedback |-> ""]
    /\ ~chatLogs[2].resolved
    /\ apiResponse.route = "feedback"
    /\ apiResponse.by = "farmerA"
    /\ apiResponse.sessionId = chatLogs[1].sessionId
    /\ apiResponse.status = 404

-----------------------------------------------------------------------------
(* The stats counters of the disease routes                                 *)

\* no predict or status request is in flight
Settled == \A c \in CallIds : requests[c].pc \in {"idle", "done"}

\* C28: after any sequence of predictions and status updates a user's
\* stats.treatmentsApplied is at most the user's stats.diseasesDetected, so
\* the treatment success rate is at most 100%.
C28_AppliedAtMostDetected ==
    Settled =>
        \A u \in DOMAIN users :
            users[u].stats.treatmentsApplied.number
                <= users[u].stats.diseasesDetected.number

\* C29: after any sequence of predict requests a user's
\* stats.diseasesDetected is the number of DiseaseDetection records stored
\* for that user, those of the backup path included.
C29_DetectedCountsRecords ==
    Settled =>
        \A u \in DOMAIN users :
            users[u].stats.diseasesDetected.number
                = Cardinality({i \in DOMAIN detections : detections[i].farmer = u})
====
